---- MODULE Spec2Model ----
(***************************************************************************)
(* The ingestion pipeline of text-embedder: the queue poller of            *)
(* worker.py (bootstrap_index, poll_loop, handle_message), the bounded     *)
(* pipeline of processor.py (process_file, embed_and_index), the index     *)
(* bootstrap of opensearch_client.py (ensure_index, create_index) and the  *)
(* status tracker of utils.py (change_dynamodb_status).                    *)
(*                                                                         *)
(* Every await of the code on an external service is a call in flight: the *)
(* step that issues it and the step in which it returns or raises are      *)
(* separate, and code between two awaits runs in one step (asyncio is      *)
(* single-threaded and cooperative).                                       *)
(***************************************************************************)
EXTENDS Integers, Sequences, FiniteSets, TLC

\* ---------------------------------------------------------------- bounds
\* messages ever put on the queue
NumMsgs == 2
\* lines of the largest batch object
MaxUnits == 2
\* largest maxReceiveCount of the queue's redrive policy
MaxReceives == 2
\* vector lengths the embedding service may answer with: 1..MaxDim
MaxDim == 2
\* config.CONCURRENCY (worker.py:10, processor.py:8): size of both semaphores
CONCURRENCY == 1
\* config.MAX_MESSAGES (worker.py:8): MaxNumberOfMessages of one receive
MAX_MESSAGES == 2
\* config.POLL_INTERVAL (worker.py:9), in seconds
POLL_INTERVAL == 2
\* fields of the largest response object of the embedding service
MaxFields == 3
\* config.BEDROCK_EMBEDDING_OUTPUT_DIM (opensearch_client.py:8, used at :46)
BEDROCK_EMBEDDING_OUTPUT_DIM == 1

Workers == {"w1", "w2"}
NoWorker == "none"
Msgs == 1..NumMsgs
Deliveries == Msgs \X (1..MaxReceives)
Dims == 1..MaxDim

\* The object stored under key <<"batch", n>> has n lines.
BatchKeys == {<<"batch", n>> : n \in 0..MaxUnits}
NoKey == <<"none", 0>>
NumLines(k) == k[2]

\* Message bodies: a JSON object with the s3_key field, a JSON value without
\* it, and text that is no JSON.
Bodies ==
    {[kind |-> "obj", key |-> k] : k \in BatchKeys}
    \cup {[kind |-> "obj_nokey", key |-> NoKey], [kind |-> "notjson", key |-> NoKey]}

NoError == <<"none", 0>>

VARIABLES
    indexExists,    \* the OpenSearch index exists
    indexDim,       \* dimension of its knn_vector field (0 while it does not exist)
    indexDocs,      \* ids of the documents it holds
    createRequests, \* PUT /<index> requests issued so far
    modelDim,       \* length of the vectors the embedding service returns
    data,           \* decoded body of the response invoke_bedrock_embedding parses
    adapterOut,     \* what invoke_bedrock_embedding did with it
    statusStore,    \* DynamoDB item of each batch key
    body,           \* Body of each queue message
    queue,          \* SQS state of each message
    receiveCount,   \* deliveries of each message so far
    maxReceiveCount,\* the queue's redrive policy: deliveries before dead-lettering
    wpc,            \* where each worker's poll_loop stands
    dim,            \* bootstrap_index's local dim
    sleepLeft,      \* seconds left of the worker's asyncio.sleep
    outerSem,       \* value of the semaphore of the worker's current poll cycle
    cycle,          \* deliveries handled by the worker's current poll cycle
    h               \* per delivery: its handle_message task and process_file call

vars == <<indexExists, indexDim, indexDocs, createRequests, modelDim, data, adapterOut,
          statusStore,
          body, queue, receiveCount, maxReceiveCount, wpc, dim, sleepLeft, outerSem, cycle, h>>

adapterVars == <<data, adapterOut>>
indexVars == <<indexExists, indexDim, indexDocs, createRequests>>
queueVars == <<body, queue, receiveCount, maxReceiveCount>>
workerVars == <<wpc, dim, sleepLeft, outerSem, cycle>>

\* A delivery nobody handles: no task, no process_file call.
BlankHandler ==
    [owner |-> NoWorker, hpc |-> "idle", key |-> NoKey, pfpc |-> "none",
     err |-> NoError, writes |-> <<>>, werr |-> FALSE, loaded |-> FALSE,
     unit |-> <<>>, sem |-> 0, succ |-> 0, fail |-> 0, del |-> FALSE]

Absent == [status |-> "absent", error |-> NoError]

\* ------------------------------------- embedding adapter (embedder.py)

\* Field names of a response object: the two the adapter looks for and three
\* it does not know.
FieldNames == {"embedding", "embeddings", "vector", "usage", "model"}

\* A field of the response: its name and whether its value is a list.
\* Returning the value of a field is written as returning the field.
Fields == [name : FieldNames, list : BOOLEAN]
NoField == [name |-> "none", list |-> FALSE]

\* JSON objects of at most MaxFields fields, in the order of the text (a
\* Python dict keeps it), each name once.
Objects ==
    {f \in UNION {[1..n -> Fields] : n \in 0..MaxFields} :
        \A i, j \in DOMAIN f : i # j => f[i].name # f[j].name}

\* What json.loads (embedder.py:28) yields: an object, or a JSON value that
\* is none (an array, a string, a number, null).
Responses ==
    {[object |-> TRUE, fields |-> f] : f \in Objects}
    \cup {[object |-> FALSE, fields |-> <<>>]}

NotCalled == [status |-> "none", field |-> NoField]
Raised == [status |-> "raised", field |-> NoField]
Returned(field) == [status |-> "returned", field |-> field]

HasField(f, name) == \E i \in DOMAIN f : f[i].name = name
FieldNamed(f, name) == f[CHOOSE i \in DOMAIN f : f[i].name = name]

\* embedder.py:35-40: the loop over the keys of the object returns the first
\* value that is a list; when it runs out, RuntimeError is raised.
RECURSIVE ScanForList(_, _)
ScanForList(f, i) ==
    IF i > Len(f) THEN Raised
    ELSE IF f[i].list THEN Returned(f[i])
    ELSE ScanForList(f, i + 1)

\* embedder.py:30-33 with the two tests in the other order.
ParseResponsePluralFirst(d) ==
    IF ~d.object THEN Raised
    ELSE IF HasField(d.fields, "embeddings") THEN Returned(FieldNamed(d.fields, "embeddings"))
    ELSE IF HasField(d.fields, "embedding") THEN Returned(FieldNamed(d.fields, "embedding"))
    ELSE ScanForList(d.fields, 1)

\* embedder.py:30-40: what invoke_bedrock_embedding does with the decoded
\* body. On a value that is no object, `in` or the subscript raises TypeError
\* (lines 30-33) or line 40 is reached.
ParseResponse(d) ==
    IF ~d.object THEN Raised
    ELSE IF HasField(d.fields, "embedding") THEN Returned(FieldNamed(d.fields, "embedding"))
    ELSE IF HasField(d.fields, "embeddings") THEN Returned(FieldNamed(d.fields, "embeddings"))
    ELSE ScanForList(d.fields, 1)

\* No call of the adapter is looked at.
AdapterIdle == data = [object |-> FALSE, fields |-> <<>>] /\ adapterOut = NotCalled

\* Lines of the batch objects the bodies of messages 1..m name, together.
RECURSIVE TotalLines(_, _)
TotalLines(b, m) ==
    IF m = 0 THEN 0
    ELSE TotalLines(b, m - 1) + (IF b[m].kind = "obj" THEN NumLines(b[m].key) ELSE 0)

InitCommon ==
    /\ indexDocs = {}
    /\ createRequests = 0
    /\ modelDim \in Dims
    /\ \/ indexExists = FALSE /\ indexDim = 0
       \/ indexExists = TRUE /\ indexDim \in Dims
    /\ statusStore = [k \in BatchKeys |-> Absent]
    /\ body \in {b \in [Msgs -> Bodies] : TotalLines(b, NumMsgs) <= MaxUnits}
    /\ queue = [m \in Msgs |-> "visible"]
    /\ receiveCount = [m \in Msgs |-> 0]
    /\ dim = [w \in Workers |-> 0]
    /\ sleepLeft = [w \in Workers |-> 0]
    /\ outerSem = [w \in Workers |-> 0]
    /\ cycle = [w \in Workers |-> {}]
    /\ h = [d \in Deliveries |-> BlankHandler]
    /\ maxReceiveCount \in 1..MaxReceives

\* One worker process is started (worker.start), the other never runs; the
\* queue dead-letters a message that was not deleted in its first delivery.
Init ==
    /\ InitCommon
    /\ AdapterIdle
    /\ maxReceiveCount = 1
    /\ wpc = [w \in Workers |-> IF w = "w1" THEN "boot_probe" ELSE "off"]

\* ------------------------------------------------- bootstrap (worker.py)

\* worker.py:30-32 without the `raise`: poll_loop goes on to the receive.
BootProbeFailSwallowed(w) ==
    /\ wpc[w] = "boot_probe"
    /\ wpc' = [wpc EXCEPT ![w] = "receive"]
    /\ UNCHANGED <<indexVars, modelDim, adapterVars, statusStore, queueVars, dim, sleepLeft, outerSem, cycle, h>>

\* worker.py:26 raises: bootstrap_index logs and re-raises, poll_loop ends.
BootProbeFail(w) ==
    /\ wpc[w] = "boot_probe"
    /\ wpc' = [wpc EXCEPT ![w] = "aborted"]
    /\ UNCHANGED <<indexVars, modelDim, adapterVars, statusStore, queueVars, dim, sleepLeft, outerSem, cycle, h>>

\* worker.py:26-28: the probe returns a vector, dim = len(dummy_vector), and
\* ensure_index(dim) issues the HEAD request of index_exists.
BootProbeReturn(w) ==
    /\ wpc[w] = "boot_probe"
    /\ dim' = [dim EXCEPT ![w] = modelDim]
    /\ wpc' = [wpc EXCEPT ![w] = "boot_exists"]
    /\ UNCHANGED <<indexVars, modelDim, adapterVars, statusStore, queueVars, sleepLeft, outerSem, cycle, h>>

\* opensearch_client.py:143-146: a status other than 200 and 404.
BootExistsFail(w) ==
    /\ wpc[w] = "boot_exists"
    /\ wpc' = [wpc EXCEPT ![w] = "aborted"]
    /\ UNCHANGED <<indexVars, modelDim, adapterVars, statusStore, queueVars, dim, sleepLeft, outerSem, cycle, h>>

\* opensearch_client.py:46: the dimension create_index puts in the mapping.
CreateIndexDimension(dimension) == BEDROCK_EMBEDDING_OUTPUT_DIM

\* opensearch_client.py:155-157 without the early return.
EnsureIndexAlwaysCreates(exists) == TRUE

\* opensearch_client.py:154-160: what ensure_index does with the answer of
\* index_exists: nothing when the index exists, else create_index().
EnsureIndexCreates(exists) == ~exists

\* index_exists answers 200 or 404; ensure_index returns (the poll loop starts)
\* or issues the PUT of create_index.
BootExistsReturn(w) ==
    /\ wpc[w] = "boot_exists"
    /\ IF EnsureIndexCreates(indexExists)
         THEN /\ wpc' = [wpc EXCEPT ![w] = "boot_create"]
              /\ createRequests' = createRequests + 1
         ELSE /\ wpc' = [wpc EXCEPT ![w] = "receive"]
              /\ UNCHANGED createRequests
    /\ UNCHANGED <<indexExists, indexDim, indexDocs, modelDim, adapterVars, statusStore, queueVars,
                   dim, sleepLeft, outerSem, cycle, h>>

\* opensearch_client.py:57-59: the PUT is refused; the error aborts startup.
BootCreateFail(w) ==
    /\ wpc[w] = "boot_create"
    /\ wpc' = [wpc EXCEPT ![w] = "aborted"]
    /\ UNCHANGED <<indexVars, modelDim, adapterVars, statusStore, queueVars, dim, sleepLeft, outerSem, cycle, h>>

\* opensearch_client.py:55-61 and worker.py:29: the index is created (the
\* service refuses to create an index that exists) and the poll loop starts.
BootCreateReturn(w) ==
    /\ wpc[w] = "boot_create"
    /\ ~indexExists
    /\ indexExists' = TRUE
    /\ indexDim' = CreateIndexDimension(dim[w])
    /\ wpc' = [wpc EXCEPT ![w] = "receive"]
    /\ UNCHANGED <<indexDocs, createRequests, modelDim, adapterVars, statusStore, queueVars,
                   dim, sleepLeft, outerSem, cycle, h>>

Bootstrap(w) ==
    \/ BootProbeFail(w)
    \/ BootProbeReturn(w)
    \/ BootExistsFail(w)
    \/ BootExistsReturn(w)
    \/ BootCreateFail(w)
    \/ BootCreateReturn(w)

\* ------------------------------------------------- poll loop (worker.py)

Visible == {m \in Msgs : queue[m] = "visible"}

\* worker.py:43-51 raise (get_queue_url or receive_message): nothing in
\* poll_loop catches it, the worker ends.
ReceiveFail(w) ==
    /\ wpc[w] = "receive"
    /\ wpc' = [wpc EXCEPT ![w] = "crashed"]
    /\ UNCHANGED <<indexVars, modelDim, adapterVars, statusStore, queueVars, dim, sleepLeft, outerSem, cycle, h>>

\* worker.py:52-55 with asyncio.sleep(0).
ReceiveEmptyNoSleep(w) ==
    /\ wpc[w] = "receive"
    /\ wpc' = [wpc EXCEPT ![w] = "sleep"]
    /\ sleepLeft' = [sleepLeft EXCEPT ![w] = 0]
    /\ UNCHANGED <<indexVars, modelDim, adapterVars, statusStore, queueVars, dim, outerSem, cycle, h>>

\* worker.py:52-55: the receive returns no message; sleep(POLL_INTERVAL).
ReceiveEmpty(w) ==
    /\ wpc[w] = "receive"
    /\ wpc' = [wpc EXCEPT ![w] = "sleep"]
    /\ sleepLeft' = [sleepLeft EXCEPT ![w] = POLL_INTERVAL]
    /\ UNCHANGED <<indexVars, modelDim, adapterVars, statusStore, queueVars, dim, outerSem, cycle, h>>

\* worker.py:54: a second of the sleep goes by.
SleepTick(w) ==
    /\ wpc[w] = "sleep"
    /\ sleepLeft[w] > 0
    /\ sleepLeft' = [sleepLeft EXCEPT ![w] = @ - 1]
    /\ UNCHANGED <<indexVars, modelDim, adapterVars, statusStore, queueVars, wpc, dim, outerSem, cycle, h>>

\* worker.py:54-55: the sleep is over, `continue` goes to the next receive.
SleepDone(w) ==
    /\ wpc[w] = "sleep"
    /\ sleepLeft[w] = 0
    /\ wpc' = [wpc EXCEPT ![w] = "receive"]
    /\ UNCHANGED <<indexVars, modelDim, adapterVars, statusStore, queueVars, dim, sleepLeft, outerSem, cycle, h>>

\* worker.py:46-58,73-74: the receive returns between 1 and MAX_MESSAGES
\* visible messages, which become invisible; a fresh semaphore and one
\* handle_message task per message are created, and the loop waits in gather.
ReceiveMessages(w) ==
    /\ wpc[w] = "receive"
    /\ \E S \in SUBSET Visible :
        /\ S # {}
        /\ Cardinality(S) <= MAX_MESSAGES
        /\ queue' = [m \in Msgs |-> IF m \in S THEN "inflight" ELSE queue[m]]
        /\ receiveCount' = [m \in Msgs |-> IF m \in S THEN receiveCount[m] + 1
                                                    ELSE receiveCount[m]]
        /\ cycle' = [cycle EXCEPT ![w] = {<<m, receiveCount[m] + 1>> : m \in S}]
        /\ h' = [d \in Deliveries |->
                    IF d[1] \in S /\ d[2] = receiveCount[d[1]] + 1
                      THEN [BlankHandler EXCEPT !.owner = w, !.hpc = "created"]
                      ELSE h[d]]
    /\ outerSem' = [outerSem EXCEPT ![w] = CONCURRENCY]
    /\ wpc' = [wpc EXCEPT ![w] = "gather"]
    /\ UNCHANGED <<indexVars, modelDim, adapterVars, statusStore, body, maxReceiveCount, dim, sleepLeft>>

\* The queue with a worker that extends the visibility timeout of a message
\* while its handler runs (change_message_visibility as a heartbeat).
VisibilityTimeoutUnlessHandled(m) ==
    /\ queue[m] = "inflight"
    /\ h[<<m, receiveCount[m]>>].hpc \notin {"created", "process", "deleting"}
    /\ queue' = [queue EXCEPT ![m] = IF receiveCount[m] >= maxReceiveCount
                                       THEN "dlq" ELSE "visible"]
    /\ UNCHANGED <<indexVars, modelDim, adapterVars, statusStore, body, receiveCount, maxReceiveCount,
                   workerVars, h>>

\* The queue: the visibility timeout of a delivered message expires (the
\* worker never extends it); the message is visible again, or dead-lettered
\* by the redrive policy once it was received MaxReceives times.
VisibilityTimeout(m) ==
    /\ queue[m] = "inflight"
    /\ queue' = [queue EXCEPT ![m] = IF receiveCount[m] >= maxReceiveCount
                                       THEN "dlq" ELSE "visible"]
    /\ UNCHANGED <<indexVars, modelDim, adapterVars, statusStore, body, receiveCount, maxReceiveCount,
                   workerVars, h>>

\* asyncio.Semaphore: acquire goes through while the value is positive.
SemaphoreFree(value) == value > 0

\* worker.py:65 as payload.get("s3_key"): a body without the field passes.
BodyDecodesWithoutKey(b) == b.kind # "notjson"

\* worker.py:64-65: json.loads(body) and payload["s3_key"] succeed.
BodyDecodes(b) == b.kind = "obj"

\* worker.py:65: the batch key the body names.
BodyKey(b) == b.key

Live(st) == st \in {"pending", "embedding", "indexing"}
InFlight(st) == st \in {"embedding", "indexing"}
Failed(st) == st \in {"bad_record", "decode_err", "embed_err", "index_err"}
TaskRaised(st) == st \in {"decode_err", "embed_err", "index_err"}
LiveUnits(r) == {u \in DOMAIN r.unit : Live(r.unit[u])}

\* The frame of a process_file call is dropped once the call is over, its
\* handler is gone and none of its tasks is left.
Settle(r) == IF r.hpc = "idle" /\ LiveUnits(r) = {} THEN BlankHandler ELSE r

\* worker.py:70-71 and the end of `async with sem`: the handler is over.
HandlerExit(r) == [r EXCEPT !.hpc = "done"]

\* worker.py:60-65,70-71: the task enters the semaphore, the body does not
\* decode, the error is logged and the task ends (no await in between).
MessageUndecodable(d) ==
    /\ h[d].hpc = "created"
    /\ SemaphoreFree(outerSem[h[d].owner])
    /\ ~BodyDecodes(body[d[1]])
    /\ h' = [h EXCEPT ![d] = HandlerExit(@)]
    /\ UNCHANGED <<indexVars, modelDim, adapterVars, statusStore, queueVars, workerVars>>

\* worker.py:60 without the semaphore.
MessageDispatchUnbounded(d) ==
    /\ h[d].hpc = "created"
    /\ BodyDecodes(body[d[1]])
    /\ outerSem' = [outerSem EXCEPT ![h[d].owner] = @ - 1]
    /\ h' = [h EXCEPT ![d] = [@ EXCEPT !.hpc = "process",
                                        !.key = BodyKey(body[d[1]]),
                                        !.pfpc = "put_processing"]]
    /\ UNCHANGED <<indexVars, modelDim, adapterVars, statusStore, queueVars, wpc, dim, sleepLeft, cycle>>

\* worker.py:60-67 and processor.py:29-30: the task enters the semaphore,
\* decodes the body and calls process_file, which issues the `processing`
\* status write.
MessageDispatch(d) ==
    /\ h[d].hpc = "created"
    /\ SemaphoreFree(outerSem[h[d].owner])
    /\ BodyDecodes(body[d[1]])
    /\ outerSem' = [outerSem EXCEPT ![h[d].owner] = @ - 1]
    /\ h' = [h EXCEPT ![d] = [@ EXCEPT !.hpc = "process",
                                        !.key = BodyKey(body[d[1]]),
                                        !.pfpc = "put_processing"]]
    /\ UNCHANGED <<indexVars, modelDim, adapterVars, statusStore, queueVars, wpc, dim, sleepLeft, cycle>>

\* worker.py:74 with asyncio.wait(tasks, return_when=FIRST_COMPLETED): the
\* loop goes back to the receive when one handler of the cycle is over.
CycleDoneFirstCompleted(w) ==
    /\ wpc[w] = "gather"
    /\ \E d \in cycle[w] : h[d].hpc = "done"
    /\ wpc' = [wpc EXCEPT ![w] = "receive"]
    /\ cycle' = [cycle EXCEPT ![w] = {}]
    /\ h' = [d \in Deliveries |->
                IF d \in cycle[w] /\ h[d].hpc = "done"
                  THEN Settle([h[d] EXCEPT !.hpc = "idle"]) ELSE h[d]]
    /\ UNCHANGED <<indexVars, modelDim, adapterVars, statusStore, queueVars, dim, sleepLeft, outerSem>>

\* worker.py:74: every handler of the cycle is over, gather returns and the
\* loop goes back to the receive.
CycleDone(w) ==
    /\ wpc[w] = "gather"
    /\ \A d \in cycle[w] : h[d].hpc = "done"
    /\ wpc' = [wpc EXCEPT ![w] = "receive"]
    /\ cycle' = [cycle EXCEPT ![w] = {}]
    /\ h' = [d \in Deliveries |->
                IF d \in cycle[w] THEN Settle([h[d] EXCEPT !.hpc = "idle"]) ELSE h[d]]
    /\ UNCHANGED <<indexVars, modelDim, adapterVars, statusStore, queueVars, dim, sleepLeft, outerSem>>

\* ------------------------------------------- process_file (processor.py)

\* utils.py:32-42: put_item replaces the whole item of the key.
PutItem(k, status, error) ==
    statusStore' = [statusStore EXCEPT ![k] = [status |-> status, error |-> error]]

\* worker.py:69 moved into a `finally`: the message is deleted although
\* process_file raised.
PipelineRaisedDeletes(r) == [r EXCEPT !.pfpc = "raised", !.hpc = "deleting", !.del = TRUE]

\* The handler's `except` (worker.py:70-71) after process_file raised: the
\* error is logged, the semaphore released, the message left on the queue.
PipelineRaised(r) == [r EXCEPT !.pfpc = "raised", !.hpc = "done"]

\* processor.py:74-77 without the status write: the `except` only re-raises.
IssueFailedSkipsWrite(r, e) == [r EXCEPT !.pfpc = "raised", !.hpc = "done", !.err = e]

\* processor.py:74-77: the `except` of process_file issues the `failed`
\* status write with error = str(e).
IssueFailed(r, e) == [r EXCEPT !.pfpc = "put_failed", !.err = e]

\* processor.py:30 raises: the call is outside the try, so process_file
\* raises to the handler without another status write.
PutProcessingFail(d) ==
    /\ h[d].pfpc = "put_processing"
    /\ h' = [h EXCEPT ![d] = PipelineRaised([@ EXCEPT !.werr = TRUE])]
    /\ outerSem' = [outerSem EXCEPT ![h[d].owner] = @ + 1]
    /\ UNCHANGED <<indexVars, modelDim, adapterVars, statusStore, queueVars, wpc, dim, sleepLeft, cycle>>

\* processor.py:30 preceded by a read of the item: a batch recorded `done` is
\* not processed again.
PutProcessingReturnSkipsDone(d) ==
    /\ h[d].pfpc = "put_processing"
    /\ IF statusStore[h[d].key].status = "done"
         THEN /\ h' = [h EXCEPT ![d] = [@ EXCEPT !.pfpc = "returned", !.hpc = "deleting",
                                                  !.del = TRUE]]
              /\ UNCHANGED statusStore
         ELSE /\ PutItem(h[d].key, "processing", NoError)
              /\ h' = [h EXCEPT ![d] = [@ EXCEPT !.pfpc = "fetch",
                                                  !.writes = Append(@, "processing")]]
    /\ UNCHANGED <<indexVars, modelDim, adapterVars, queueVars, workerVars>>

\* processor.py:30-32: `processing` is written; fetch_s3_jsonl is called.
PutProcessingReturn(d) ==
    /\ h[d].pfpc = "put_processing"
    /\ PutItem(h[d].key, "processing", NoError)
    /\ h' = [h EXCEPT ![d] = [@ EXCEPT !.pfpc = "fetch",
                                        !.writes = Append(@, "processing")]]
    /\ UNCHANGED <<indexVars, modelDim, adapterVars, queueVars, workerVars>>

\* utils.py:16-19 raise (get_object fails, or a line is no JSON);
\* processor.py:74-76 issues the `failed` write.
FetchFail(d) ==
    /\ h[d].pfpc = "fetch"
    /\ h' = [h EXCEPT ![d] = IssueFailed(@, <<"load", 0>>)]
    /\ UNCHANGED <<indexVars, modelDim, adapterVars, statusStore, queueVars, workerVars>>

\* processor.py:62-63: the loop creates one task per line and stops at the
\* first line without a 'chunks' field: of n lines, the first `scheduled`
\* got a task, the next one (if any) is the bad record, the rest got none.
ScheduledUnits(n, scheduled) ==
    [u \in 1..n |-> IF u <= scheduled THEN "pending"
                    ELSE IF u = scheduled + 1 THEN "bad_record" ELSE "unscheduled"]

\* processor.py:68-70 with the test `len(errors) > 1`.
AfterGatherIgnoresOne(r, errors) ==
    IF errors > 1
      THEN IssueFailed(r, <<"pages_failed", errors>>)
      ELSE [r EXCEPT !.pfpc = "put_done"]

\* processor.py:68-73: what process_file does once gather returned `errors`
\* exceptions: raise RuntimeError("<n> pages failed ...") or write `done`.
AfterGather(r, errors) ==
    IF errors > 0
      THEN IssueFailed(r, <<"pages_failed", errors>>)
      ELSE [r EXCEPT !.pfpc = "put_done"]

\* processor.py:32-66: the batch is loaded and every line gets a task. With
\* no line, gather() is done at once and process_file goes on to line 67.
FetchReturn(d) ==
    /\ h[d].pfpc = "fetch"
    /\ LET n == NumLines(h[d].key)
           r == [h[d] EXCEPT !.loaded = TRUE, !.unit = ScheduledUnits(n, n),
                             !.sem = CONCURRENCY]
       IN  h' = [h EXCEPT ![d] = IF n = 0 THEN AfterGather(r, 0)
                                          ELSE [r EXCEPT !.pfpc = "gather"]]
    /\ UNCHANGED <<indexVars, modelDim, adapterVars, statusStore, queueVars, workerVars>>

\* processor.py:62-63 raise on line c + 1 (p['chunks'] on a record without
\* that field): the tasks of the lines before it exist and are never
\* awaited, the later lines get none; the `except` issues the `failed` write.
FetchReturnBadRecord(d) ==
    /\ h[d].pfpc = "fetch"
    /\ \E c \in 0..(NumLines(h[d].key) - 1) :
        h' = [h EXCEPT ![d] =
                 IssueFailed([@ EXCEPT !.loaded = TRUE,
                                       !.unit = ScheduledUnits(NumLines(h[d].key), c),
                                       !.sem = CONCURRENCY],
                             <<"bad_record", 0>>)]
    /\ UNCHANGED <<indexVars, modelDim, adapterVars, statusStore, queueVars, workerVars>>

\* processor.py:38 raises: json.loads of the 'chunks' value fails before the
\* task enters the semaphore and outside the inner try.
UnitDecodeFail(d, u) ==
    /\ u \in DOMAIN h[d].unit
    /\ h[d].unit[u] = "pending"
    /\ h' = [h EXCEPT ![d] = Settle([@ EXCEPT !.unit[u] = "decode_err"])]
    /\ UNCHANGED <<indexVars, modelDim, adapterVars, statusStore, queueVars, workerVars>>

\* processor.py:39 without the semaphore.
UnitAcquireUnbounded(d, u) ==
    /\ u \in DOMAIN h[d].unit
    /\ h[d].unit[u] = "pending"
    /\ h' = [h EXCEPT ![d] = [@ EXCEPT !.unit[u] = "embedding", !.sem = @ - 1]]
    /\ UNCHANGED <<indexVars, modelDim, adapterVars, statusStore, queueVars, workerVars>>

\* processor.py:38-43: the task enters the semaphore and calls the
\* embedding adapter.
UnitAcquire(d, u) ==
    /\ u \in DOMAIN h[d].unit
    /\ h[d].unit[u] = "pending"
    /\ SemaphoreFree(h[d].sem)
    /\ h' = [h EXCEPT ![d] = [@ EXCEPT !.unit[u] = "embedding", !.sem = @ - 1]]
    /\ UNCHANGED <<indexVars, modelDim, adapterVars, statusStore, queueVars, workerVars>>

\* processor.py:56-59 with the `raise` replaced by another attempt.
UnitFailedRetries(r, u, st) ==
    [r EXCEPT !.unit[u] = "pending", !.fail = @ + 1, !.sem = @ + 1]

\* processor.py:56-59 and the end of `async with sem`: the failure counter
\* is incremented, the error re-raised, the semaphore released.
UnitFailed(r, u, st) ==
    [r EXCEPT !.unit[u] = st, !.fail = @ + 1, !.sem = @ + 1]

\* processor.py:43 raises.
EmbedFail(d, u) ==
    /\ u \in DOMAIN h[d].unit
    /\ h[d].unit[u] = "embedding"
    /\ h' = [h EXCEPT ![d] = Settle(UnitFailed(@, u, "embed_err"))]
    /\ UNCHANGED <<indexVars, modelDim, adapterVars, statusStore, queueVars, workerVars>>

\* processor.py:43-54: the vector arrives, the document is built and
\* index_document issues its PUT.
EmbedReturn(d, u) ==
    /\ u \in DOMAIN h[d].unit
    /\ h[d].unit[u] = "embedding"
    /\ h' = [h EXCEPT ![d] = [@ EXCEPT !.unit[u] = "indexing"]]
    /\ UNCHANGED <<indexVars, modelDim, adapterVars, statusStore, queueVars, workerVars>>

\* page.get("id") of line u of the object under key k: lines at even
\* positions have no "id" field (None); the single line of a one-line object
\* has "id": 0; the other lines have a non-empty string that no other line has.
PageId(k, u) ==
    IF u % 2 = 0 THEN <<"none", 0>>
    ELSE IF NumLines(k) = 1 THEN <<"int", 0>>
    ELSE <<"str", u>>

\* The record has an "id" field.
HasId(k, u) == PageId(k, u)[1] # "none"

\* Python truth value of page.get("id"): None and 0 are false.
Truthy(v) == v[1] # "none" /\ ~(v[1] = "int" /\ v[2] = 0)

\* processor.py:46: doc_id = page.get("id") or str(uuid.uuid4()); a uuid is
\* new in every task of every delivery.
DocId(d, k, u) ==
    IF Truthy(PageId(k, u)) THEN <<"id", NumLines(k), 0, u>> ELSE <<"uuid", d[1], d[2], u>>

\* opensearch_client.py:71-73: the PUT is refused.
IndexFail(d, u) ==
    /\ u \in DOMAIN h[d].unit
    /\ h[d].unit[u] = "indexing"
    /\ h' = [h EXCEPT ![d] = Settle(UnitFailed(@, u, "index_err"))]
    /\ UNCHANGED <<indexVars, modelDim, adapterVars, statusStore, queueVars, workerVars>>

\* processor.py:54-55 and opensearch_client.py:69-74: the document is
\* written (the index takes vectors of its dimension only), the success
\* counter incremented, the semaphore released.
IndexReturn(d, u) ==
    /\ u \in DOMAIN h[d].unit
    /\ h[d].unit[u] = "indexing"
    /\ indexExists
    /\ indexDim = modelDim
    /\ indexDocs' = indexDocs \cup {DocId(d, h[d].key, u)}
    /\ h' = [h EXCEPT ![d] = Settle([@ EXCEPT !.unit[u] = "ok", !.succ = @ + 1,
                                               !.sem = @ + 1])]
    /\ UNCHANGED <<indexExists, indexDim, createRequests, modelDim, adapterVars, statusStore,
                   queueVars, workerVars>>

\* processor.py:66-73: every task is over and gather returns their results.
GatherReturn(d) ==
    /\ h[d].pfpc = "gather"
    /\ LiveUnits(h[d]) = {}
    /\ h' = [h EXCEPT ![d] =
                AfterGather(@, Cardinality({u \in DOMAIN @.unit : TaskRaised(@.unit[u])}))]
    /\ UNCHANGED <<indexVars, modelDim, adapterVars, statusStore, queueVars, workerVars>>

\* processor.py:72 raises inside the try: the `except` issues the `failed`
\* write.
PutDoneFail(d) ==
    /\ h[d].pfpc = "put_done"
    /\ h' = [h EXCEPT ![d] = IssueFailed([@ EXCEPT !.werr = TRUE], <<"status_write", 0>>)]
    /\ UNCHANGED <<indexVars, modelDim, adapterVars, statusStore, queueVars, workerVars>>

\* processor.py:72-73 with a `raise` after the `done` write: the `except`
\* writes `failed` over it.
AfterPipelineWritesAgain(r) == [r EXCEPT !.pfpc = "put_failed"]

\* worker.py:67-69: what the handler does when process_file returned.
AfterPipeline(r) == [r EXCEPT !.pfpc = "returned", !.hpc = "deleting", !.del = TRUE]

\* processor.py:72-73 and worker.py:69: `done` is written, process_file
\* returns and the handler issues delete_message.
PutDoneReturn(d) ==
    /\ h[d].pfpc = "put_done"
    /\ PutItem(h[d].key, "done", NoError)
    /\ h' = [h EXCEPT ![d] = AfterPipeline([@ EXCEPT !.writes = Append(@, "done")])]
    /\ UNCHANGED <<indexVars, modelDim, adapterVars, queueVars, workerVars>>

\* processor.py:76 raises inside the `except`: process_file raises that
\* error instead.
PutFailedFail(d) ==
    /\ h[d].pfpc = "put_failed"
    /\ h' = [h EXCEPT ![d] = PipelineRaised([@ EXCEPT !.werr = TRUE])]
    /\ outerSem' = [outerSem EXCEPT ![h[d].owner] = @ + 1]
    /\ UNCHANGED <<indexVars, modelDim, adapterVars, statusStore, queueVars, wpc, dim, sleepLeft, cycle>>

\* worker.py:70-74 without the handler's `except` and without
\* return_exceptions: the error of process_file ends poll_loop.
PutFailedReturnEscapes(d) ==
    /\ h[d].pfpc = "put_failed"
    /\ PutItem(h[d].key, "failed", h[d].err)
    /\ h' = [h EXCEPT ![d] = PipelineRaised([@ EXCEPT !.writes = Append(@, "failed")])]
    /\ outerSem' = [outerSem EXCEPT ![h[d].owner] = @ + 1]
    /\ wpc' = [wpc EXCEPT ![h[d].owner] = "crashed"]
    /\ UNCHANGED <<indexVars, modelDim, adapterVars, queueVars, dim, sleepLeft, cycle>>

\* processor.py:76-77: `failed` is written with the error and process_file
\* re-raises.
PutFailedReturn(d) ==
    /\ h[d].pfpc = "put_failed"
    /\ PutItem(h[d].key, "failed", h[d].err)
    /\ h' = [h EXCEPT ![d] = PipelineRaised([@ EXCEPT !.writes = Append(@, "failed")])]
    /\ outerSem' = [outerSem EXCEPT ![h[d].owner] = @ + 1]
    /\ UNCHANGED <<indexVars, modelDim, adapterVars, queueVars, wpc, dim, sleepLeft, cycle>>

\* worker.py:69 raises: caught at worker.py:70, the message stays.
DeleteFail(d) ==
    /\ h[d].hpc = "deleting"
    /\ h' = [h EXCEPT ![d] = HandlerExit(@)]
    /\ outerSem' = [outerSem EXCEPT ![h[d].owner] = @ + 1]
    /\ UNCHANGED <<indexVars, modelDim, adapterVars, statusStore, queueVars, wpc, dim, sleepLeft, cycle>>

\* worker.py:69: the message is deleted from the queue.
DeleteReturn(d) ==
    /\ h[d].hpc = "deleting"
    /\ queue' = [queue EXCEPT ![d[1]] = "deleted"]
    /\ h' = [h EXCEPT ![d] = HandlerExit(@)]
    /\ outerSem' = [outerSem EXCEPT ![h[d].owner] = @ + 1]
    /\ UNCHANGED <<indexVars, modelDim, adapterVars, statusStore, body, receiveCount, maxReceiveCount,
                   wpc, dim, sleepLeft, cycle>>

Handle(d) ==
    \/ MessageUndecodable(d)
    \/ MessageDispatch(d)
    \/ PutProcessingFail(d)
    \/ PutProcessingReturn(d)
    \/ FetchFail(d)
    \/ FetchReturn(d)
    \/ FetchReturnBadRecord(d)
    \/ GatherReturn(d)
    \/ PutDoneFail(d)
    \/ PutDoneReturn(d)
    \/ PutFailedFail(d)
    \/ PutFailedReturn(d)
    \/ DeleteFail(d)
    \/ DeleteReturn(d)

Task(d, u) ==
    \/ UnitDecodeFail(d, u)
    \/ UnitAcquire(d, u)
    \/ EmbedFail(d, u)
    \/ EmbedReturn(d, u)
    \/ IndexFail(d, u)
    \/ IndexReturn(d, u)

Poll(w) ==
    \/ ReceiveFail(w)
    \/ ReceiveEmpty(w)
    \/ SleepTick(w)
    \/ SleepDone(w)
    \/ ReceiveMessages(w)
    \/ CycleDone(w)

Next ==
    \/ \E w \in Workers : Bootstrap(w) \/ Poll(w)
    \/ \E m \in Msgs : VisibilityTimeout(m)
    \/ \E d \in Deliveries : Handle(d)
    \/ \E d \in Deliveries : \E u \in 1..MaxUnits : Task(d, u)


\* ------------------------------------------------------------ properties

Handled == {d \in Deliveries : h[d].owner # NoWorker}
Concluded(d) == h[d].pfpc \in {"returned", "raised"}
InPipeline(d) == h[d].pfpc \in {"put_processing", "fetch", "gather", "put_done", "put_failed"}
LastWritten(d) ==
    IF h[d].writes = <<>> THEN "none" ELSE h[d].writes[Len(h[d].writes)]
AllUnitsOk(d) == \A u \in DOMAIN h[d].unit : h[d].unit[u] = "ok"
InFlightUnits(d) == {u \in DOMAIN h[d].unit : InFlight(h[d].unit[u])}
Polling(w) == wpc[w] \in {"receive", "sleep", "gather", "crashed"}

\* C1 as stated: when process_file has finished with a batch it loaded, the
\* last status it wrote is `done` if and only if every unit was embedded and
\* indexed, and `failed` if at least one unit failed.
C1_LastStatusIffAllUnits ==
    \A d \in Deliveries :
        (Concluded(d) /\ h[d].loaded) =>
            /\ (LastWritten(d) = "done") <=> AllUnitsOk(d)
            /\ ~AllUnitsOk(d) => LastWritten(d) = "failed"

\* C1 amended: when process_file has finished with a batch it loaded, `done`
\* is the last status it wrote only if every unit was embedded and indexed;
\* and when none of its status writes raised, the last status written is
\* `done` if every unit succeeded and `failed` if at least one did not.
C1_LastStatusUnlessWriteFails ==
    \A d \in Deliveries :
        (Concluded(d) /\ h[d].loaded) =>
            /\ LastWritten(d) = "done" => AllUnitsOk(d)
            /\ ~h[d].werr => ((LastWritten(d) = "done") <=> AllUnitsOk(d))
            /\ (~h[d].werr /\ ~AllUnitsOk(d)) => LastWritten(d) = "failed"

\* A batch of at least two units ended `failed` with one unit indexed and
\* another failed, no status write having raised.
C1_Witness ==
    \E d \in Deliveries :
        /\ Concluded(d) /\ h[d].loaded /\ ~h[d].werr
        /\ LastWritten(d) = "failed"
        /\ \E u, v \in DOMAIN h[d].unit : h[d].unit[u] = "ok" /\ Failed(h[d].unit[v])

\* C2: once a batch is loaded and its tasks are scheduled, every one of its
\* units has a task (so that it is attempted whatever happens to the
\* others), and every document a unit wrote is in the index.
C2_EverySiblingAttempted ==
    \A d \in Deliveries :
        h[d].loaded =>
            \A u \in DOMAIN h[d].unit :
                /\ h[d].unit[u] # "unscheduled"
                /\ h[d].unit[u] = "ok" => DocId(d, h[d].key, u) \in indexDocs

\* C3: at most CONCURRENCY units of one process_file call are between
\* acquiring and releasing its semaphore.
C3_UnitsInFlightBounded ==
    \A d \in Deliveries : Cardinality(InFlightUnits(d)) <= CONCURRENCY

\* A unit left through the exception path, after which the semaphore is
\* full again while a sibling is kept waiting.
C3_Witness ==
    \E d \in Deliveries :
        /\ Cardinality(InFlightUnits(d)) = CONCURRENCY
        /\ \E u \in DOMAIN h[d].unit : h[d].unit[u] \in {"embed_err", "index_err"}

\* C4: at most CONCURRENCY messages of one worker are inside process_file.
C4_PipelinesInFlightBounded ==
    \A w \in Workers :
        Cardinality({d \in Deliveries : h[d].owner = w /\ InPipeline(d)}) <= CONCURRENCY

\* CONCURRENCY pipelines run while another message of the cycle waits for
\* the semaphore.
C4_Witness ==
    \E w \in Workers :
        /\ Cardinality({d \in cycle[w] : InPipeline(d)}) = CONCURRENCY
        /\ \E d \in cycle[w] : h[d].hpc = "created"

\* C5: delete_message is issued for a delivery if and only if process_file
\* returned for it: never for a body that does not decode, a batch that did
\* not load, a unit that failed or a status write that raised; and only a
\* delivery whose pipeline returned is deleted from the queue.
C5_DeleteIffPipelineSucceeded ==
    \A d \in Deliveries :
        /\ h[d].del <=> h[d].pfpc = "returned"
        /\ h[d].del =>
            /\ BodyDecodes(body[d[1]])
            /\ h[d].loaded /\ AllUnitsOk(d) /\ ~h[d].werr
            /\ h[d].writes = <<"processing", "done">>
        /\ (h[d].hpc \in {"created", "process", "done"} /\ ~h[d].del
              /\ receiveCount[d[1]] = d[2])
             => queue[d[1]] # "deleted"

\* In one cycle a message whose pipeline raised is left on the queue and a
\* message whose pipeline returned is deleted.
C5_Witness ==
    \E d, e \in Deliveries :
        /\ h[d].hpc = "done" /\ h[d].pfpc = "raised" /\ ~h[d].del
        /\ queue[d[1]] # "deleted"
        /\ h[e].hpc = "done" /\ h[e].pfpc = "returned" /\ queue[e[1]] = "deleted"

BadBody(m) == body[m].kind \in {"obj_nokey", "notjson"}

\* C6: an error in the handling of one message does not end the poll loop
\* and touches no sibling: while the loop waits in gather its only next step
\* is the next receive, taken when every handler of the cycle is over (a
\* handler whose pipeline returned having issued its delete), and the step
\* that ends one handler leaves every other handler of the cycle as it was.
C6_HandlerErrorsStayLocal ==
    [][\A w \in Workers :
          wpc[w] = "gather" =>
            /\ wpc'[w] \in {"gather", "receive"}
            /\ wpc'[w] = "receive" =>
                 \A d \in cycle[w] :
                    /\ h[d].hpc = "done"
                    /\ h[d].pfpc = "returned" => h[d].del
            /\ \A d, e \in cycle[w] :
                 (d # e /\ h[d].hpc # "done" /\ h'[d].hpc = "done") => h'[e] = h[e]
      ]_vars

\* One handler of the cycle ended with an error and a sibling went on to
\* acknowledge its message.
C6_Witness ==
    \E w \in Workers : \E d, e \in cycle[w] :
        /\ d # e
        /\ h[d].hpc = "done" /\ (h[d].pfpc = "raised" \/ BadBody(d[1]))
        /\ h[e].hpc = "deleting"

\* C7: for a delivery whose body is no JSON or lacks the s3_key field,
\* process_file is never called, the handler writes no status, the message
\* is not deleted, and the poll loop is still running; when no message
\* decodes, the status store is never written.
C7_UndecodableBodyIsSkipped ==
    /\ \A d \in Handled :
          BadBody(d[1]) =>
            /\ h[d].pfpc = "none" /\ h[d].key = NoKey
            /\ h[d].writes = <<>> /\ ~h[d].del
            /\ h[d].hpc \in {"created", "done"}
            /\ wpc[h[d].owner] = "gather"
    /\ \A m \in Msgs : BadBody(m) => queue[m] # "deleted"
    /\ (\A m \in Msgs : BadBody(m)) => \A k \in BatchKeys : statusStore[k] = Absent

\* The handler of a body without the s3_key field is over.
C7_Witness ==
    \E d \in Handled : body[d[1]].kind = "obj_nokey" /\ h[d].hpc = "done"

\* C8: a worker that has issued a receive has completed bootstrap (the probe
\* returned, the index exists), and a worker whose bootstrap has not
\* completed or has failed handles no message: nothing was received, written
\* or deleted.
C8_NoReceiveBeforeBootstrap ==
    /\ \A w \in Workers :
          /\ Polling(w) => (indexExists /\ dim[w] = modelDim)
          /\ ~Polling(w) => (cycle[w] = {} /\ \A d \in Deliveries : h[d].owner # w)
    /\ (\A w \in Workers : ~Polling(w)) =>
          /\ \A m \in Msgs : receiveCount[m] = 0 /\ queue[m] = "visible"
          /\ \A k \in BatchKeys : statusStore[k] = Absent
          /\ indexDocs = {}

\* Startup aborted because the index creation failed, with messages waiting.
C8_Witness ==
    \E w \in Workers :
        /\ wpc[w] = "aborted" /\ createRequests = 1 /\ ~indexExists
        /\ \E m \in Msgs : body[m].kind = "obj" /\ queue[m] = "visible"

\* C9: when index_exists answers that the index exists, ensure_index issues
\* no create request and leaves the index as it is.
C9_EnsureIndexNoOpWhenExists ==
    [][\A w \in Workers :
          (wpc[w] = "boot_exists" /\ indexExists /\ wpc'[w] \notin {"boot_exists", "aborted"})
            => /\ wpc'[w] = "receive"
               /\ createRequests' = createRequests
               /\ indexExists' /\ indexDim' = indexDim /\ indexDocs' = indexDocs
      ]_vars

\* ensure_index has returned for an index that existed before the worker
\* started: no create request was issued.
C9_Witness ==
    \E w \in Workers :
        Polling(w) /\ indexExists /\ createRequests = 0 /\ indexDim # BEDROCK_EMBEDDING_OUTPUT_DIM

\* C10: an index created by bootstrap has the dimension of the probe vector.
C10_CreatedWithProbeDimension ==
    \A w \in Workers :
        (Polling(w) /\ createRequests > 0) => indexDim = dim[w]

\* C11: a receive that returns no message raises no error, creates no
\* handler, deletes nothing and writes no status: its only effect is that the
\* worker sleeps POLL_INTERVAL seconds; while it sleeps the worker has no
\* handler and does nothing but let the seconds go by, it leaves the sleep
\* only for the next receive and only when the interval is over, and it does
\* leave it.
C11_EmptyPollSleepsThenReceives ==
    /\ [][\A w \in Workers :
             /\ (wpc[w] # "sleep" /\ wpc'[w] = "sleep") =>
                  /\ wpc[w] = "receive"
                  /\ sleepLeft'[w] = POLL_INTERVAL
                  /\ cycle'[w] = {}
                  /\ h' = h /\ statusStore' = statusStore /\ indexDocs' = indexDocs
                  /\ queue' = queue /\ receiveCount' = receiveCount
             /\ wpc[w] = "sleep" =>
                  /\ cycle[w] = {}
                  /\ \A d \in Deliveries : h[d].owner = w => h[d].hpc = "idle"
                  /\ wpc'[w] \in {"sleep", "receive"}
                  /\ wpc'[w] = "sleep" => sleepLeft'[w] \in {sleepLeft[w], sleepLeft[w] - 1}
                  /\ wpc'[w] = "receive" => sleepLeft[w] = 0
         ]_vars
    /\ \A w \in Workers : (wpc[w] = "sleep") ~> (wpc[w] = "receive")

\* After a cycle that handled a message, a poll came back empty and the
\* sleep that followed has run its whole interval.
C11_Witness ==
    \E w \in Workers :
        /\ wpc[w] = "sleep" /\ sleepLeft[w] = 0
        /\ \E m \in Msgs : receiveCount[m] > 0

FailedTasks(d) == {u \in DOMAIN h[d].unit : TaskRaised(h[d].unit[u])}
WritesStatus(d, status) == h'[d].writes = Append(h[d].writes, status)

\* C12: the step in which process_file writes `failed` for a batch of which
\* the tasks of k >= 1 units have failed stores the error detail "k pages
\* failed", and
\* the step in which it writes `done` stores no error detail.
C12_FailedRecordStatesCount ==
    [][\A d \in Deliveries :
          /\ (WritesStatus(d, "failed") /\ FailedTasks(d) # {}) =>
                statusStore'[h[d].key].error = <<"pages_failed", Cardinality(FailedTasks(d))>>
          /\ WritesStatus(d, "done") => statusStore'[h[d].key].error = NoError
      ]_vars

UnitsIn(d, states) == {u \in DOMAIN h[d].unit : h[d].unit[u] \in states}
ScheduledTasks(d) == {u \in DOMAIN h[d].unit : h[d].unit[u] \notin {"bad_record", "unscheduled"}}

\* C13: in every execution the success counter has been incremented once per
\* unit embedded and indexed and the failure counter once per unit whose
\* task ended in an error; once every task is over the two add up to the
\* number of scheduled units, and an execution that ended `done` on an empty
\* batch incremented neither.
C13_CountersMatchOutcomes ==
    \A d \in Deliveries :
        /\ h[d].succ = Cardinality(UnitsIn(d, {"ok"}))
        /\ h[d].fail = Cardinality(FailedTasks(d))
        /\ LiveUnits(h[d]) = {} => h[d].succ + h[d].fail = Cardinality(ScheduledTasks(d))
        /\ (h[d].loaded /\ h[d].unit = <<>> /\ LastWritten(d) = "done")
              => (h[d].succ = 0 /\ h[d].fail = 0)

Terminal(status) == status \in {"done", "failed"}

\* C14 as stated: an execution writes nothing before `processing`, which it
\* writes before the batch is loaded and before any unit is worked on; once
\* process_file is over, `processing` has been followed by exactly one of
\* `done` and `failed`, and it issues no write after that one.
C14_ProcessingThenOneTerminal ==
    \A d \in Deliveries :
        /\ h[d].writes = <<>> => (~h[d].loaded /\ h[d].unit = <<>>)
        /\ h[d].writes # <<>> => h[d].writes[1] = "processing"
        /\ (Concluded(d) /\ h[d].writes # <<>>)
              => (Len(h[d].writes) = 2 /\ Terminal(h[d].writes[2]))
        /\ (Len(h[d].writes) >= 2 /\ h[d].owner # NoWorker) => Concluded(d)

\* C14 amended: the status writes of an execution that took effect are
\* `processing`, written before the batch is loaded and before any unit is
\* worked on, followed by at most one of `done` and `failed`, after which
\* process_file is over and issues no further write; there is exactly one
\* terminal write when none of the execution's status writes raised.
C14_ProcessingThenAtMostOneTerminal ==
    \A d \in Deliveries :
        /\ h[d].writes = <<>> => (~h[d].loaded /\ h[d].unit = <<>>)
        /\ h[d].writes \in {<<>>, <<"processing">>, <<"processing", "done">>,
                            <<"processing", "failed">>}
        /\ (Concluded(d) /\ ~h[d].werr) => Len(h[d].writes) = 2
        /\ (Len(h[d].writes) = 2 /\ h[d].owner # NoWorker) => Concluded(d)

\* One execution ended `processing`, `done`; another wrote `failed` after its
\* `done` write had raised, every unit being indexed.
C14_Witness ==
    \E d, e \in Deliveries :
        /\ Concluded(d) /\ h[d].writes = <<"processing", "done">>
        /\ Concluded(e) /\ h[e].writes = <<"processing", "failed">>
        /\ h[e].werr /\ h[e].unit # <<>> /\ AllUnitsOk(e)

\* C15: from the moment process_file issues its terminal status write, and
\* when it has returned or raised, none of the unit tasks it created is
\* pending or in flight.
C15_NoTaskLeftAtConclusion ==
    \A d \in Deliveries :
        (h[d].pfpc \in {"put_done", "put_failed"} \/ Concluded(d)) => LiveUnits(h[d]) = {}

C17_NoRetryWithinExecution ==
    [][\A d \in Deliveries : \A u \in DOMAIN h[d].unit \cap DOMAIN h'[d].unit :
          LET old == h[d].unit[u]
              new == h'[d].unit[u]
          IN  old # new =>
                /\ new = "embedding" => old = "pending"
                /\ new = "indexing" => old = "embedding"
                /\ new = "ok" => old = "indexing"
                /\ new \notin {"pending", "unscheduled", "bad_record"}
                /\ Live(old)
      ]_vars

\* An execution is over in which the embedding call of one unit and the index
\* write of another have failed.
C17_Witness ==
    \E d \in Deliveries :
        /\ Concluded(d)
        /\ \E u, v \in DOMAIN h[d].unit :
              h[d].unit[u] = "embed_err" /\ h[d].unit[v] = "index_err"

LoaderFailed(d) == h[d].err = <<"load", 0>>

\* C18 as stated: when fetch_s3_jsonl raised, the execution creates no task
\* and indexes nothing, and once process_file is over it has written
\* `processing` and then `failed`, it has raised to the handler, and the
\* message was not deleted.
C18_LoaderFailureFailsBatch ==
    \A d \in Deliveries :
        LoaderFailed(d) =>
            /\ ~h[d].loaded /\ h[d].unit = <<>> /\ h[d].succ = 0 /\ h[d].fail = 0
            /\ h[d].pfpc \in {"put_failed", "raised"}
            /\ ~h[d].del
            /\ receiveCount[d[1]] = d[2] => queue[d[1]] # "deleted"
            /\ Concluded(d) => (h[d].writes = <<"processing", "failed">> /\ h[d].hpc # "process")

\* C18 amended: the same, except that the status ends `failed` only when the
\* `failed` write does not raise; otherwise `processing` stays the only
\* status written.
C18_LoaderFailureFailsBatchUnlessWriteFails ==
    \A d \in Deliveries :
        LoaderFailed(d) =>
            /\ ~h[d].loaded /\ h[d].unit = <<>> /\ h[d].succ = 0 /\ h[d].fail = 0
            /\ h[d].pfpc \in {"put_failed", "raised"}
            /\ ~h[d].del
            /\ receiveCount[d[1]] = d[2] => queue[d[1]] # "deleted"
            /\ Concluded(d) =>
                /\ h[d].hpc # "process"
                /\ h[d].writes = IF h[d].werr THEN <<"processing">>
                                              ELSE <<"processing", "failed">>

\* The loader failed for a batch that has lines; `failed` is recorded, the
\* handler is over and the message is still on the queue.
C18_Witness ==
    \E d \in Deliveries :
        /\ LoaderFailed(d) /\ NumLines(h[d].key) > 0
        /\ h[d].hpc = "done" /\ h[d].writes = <<"processing", "failed">>
        /\ queue[d[1]] = "inflight"

\* C19: the document of an indexed unit is stored under the unit's own "id"
\* when its record has one, and under an id generated for this delivery
\* otherwise; so the index holds one document for a unit with an id however
\* often its batch is processed, and one more per delivery for a unit
\* without.
C19_DocumentIdIsUnitId ==
    \A d \in Deliveries : \A u \in DOMAIN h[d].unit :
        h[d].unit[u] = "ok" =>
            IF HasId(h[d].key, u)
              THEN /\ <<"id", NumLines(h[d].key), 0, u>> \in indexDocs
                   /\ \A e \in Deliveries : <<"uuid", e[1], e[2], u>> \notin indexDocs
              ELSE <<"uuid", d[1], d[2], u>> \in indexDocs

\* C20: nothing a worker does keeps a delivered message invisible: whatever
\* its handler is doing, the visibility timeout of a message in flight can
\* expire; and two executions for the same message that are in progress at
\* the same time belong to different deliveries taken by different workers.
C20_LeaseNeverRenewed ==
    /\ \A m \in Msgs : queue[m] = "inflight" => ENABLED VisibilityTimeout(m)
    /\ \A d, e \in Deliveries :
          (d[1] = e[1] /\ d[2] < e[2] /\ InPipeline(d) /\ InPipeline(e))
              => (h[d].owner # h[e].owner /\ receiveCount[d[1]] >= e[2])

\* The first delivery of a message is still inside process_file when the
\* second delivery, taken by the other worker after the timeout, is too; both
\* have written `processing` and each has indexed the batch's unit.
C20_Witness ==
    \E m \in Msgs :
        /\ InPipeline(<<m, 1>>) /\ InPipeline(<<m, 2>>)
        /\ h[<<m, 1>>].writes = <<"processing">> /\ h[<<m, 2>>].writes = <<"processing">>
        /\ h[<<m, 1>>].unit # <<>> /\ AllUnitsOk(<<m, 1>>)
        /\ h[<<m, 2>>].unit # <<>> /\ AllUnitsOk(<<m, 2>>)
        /\ {<<"uuid", m, 1, 1>>, <<"uuid", m, 2, 1>>} \subseteq indexDocs

ListFields(f) == {i \in DOMAIN f : f[i].list}

\* C21: for every response object the adapter has parsed: it returned the
\* value of `embedding` if the object has that field; otherwise the value of
\* `embeddings` if it has that one; otherwise the value of the first field, in
\* the order of the object, whose value is a list; and it raised if there is
\* none (and for a response that is no object).
C21_AdapterFieldOrder ==
    adapterOut # NotCalled =>
        LET f == data.fields
        IN  IF data.object /\ HasField(f, "embedding")
              THEN adapterOut = Returned(FieldNamed(f, "embedding"))
            ELSE IF data.object /\ HasField(f, "embeddings")
              THEN adapterOut = Returned(FieldNamed(f, "embeddings"))
            ELSE IF data.object /\ ListFields(f) # {}
              THEN adapterOut =
                     Returned(f[CHOOSE i \in ListFields(f) : \A j \in ListFields(f) : i <= j])
            ELSE adapterOut.status = "raised"

\* The adapter returned the value of `embedding`, which is no list, from an
\* object whose first field is `embeddings` with a list for its value.
C21_Witness ==
    /\ adapterOut.status = "returned"
    /\ adapterOut.field = [name |-> "embedding", list |-> FALSE]
    /\ Len(data.fields) = MaxFields
    /\ data.fields[1] = [name |-> "embeddings", list |-> TRUE]

ActiveHandlers(w) == {d \in Deliveries : h[d].owner = w /\ h[d].hpc # "idle"}

Spec == Init /\ [][Next]_vars

\* asyncio's timer: a sleep that was started runs out.
LiveSpec == Spec /\ \A w \in Workers : WF_vars(SleepTick(w)) /\ WF_vars(SleepDone(w))

\* One worker, and a queue that delivers a message twice before it
\* dead-letters it: message 1 names a batch of MaxUnits lines, the body of
\* message 2 is no JSON; the index does not exist yet.
InitRedelivery ==
    /\ InitCommon
    /\ AdapterIdle
    /\ maxReceiveCount = MaxReceives
    /\ modelDim = BEDROCK_EMBEDDING_OUTPUT_DIM
    /\ ~indexExists
    /\ body = [m \in Msgs |-> IF m = 1 THEN [kind |-> "obj", key |-> <<"batch", MaxUnits>>]
                                       ELSE [kind |-> "notjson", key |-> NoKey]]
    /\ wpc = [w \in Workers |-> IF w = "w1" THEN "boot_probe" ELSE "off"]

RedeliverySpec == InitRedelivery /\ [][Next]_vars

\* Two worker processes on the same queue; message 1 names a batch of one
\* line.
InitTwoWorkers ==
    /\ InitCommon
    /\ AdapterIdle
    /\ maxReceiveCount = MaxReceives
    /\ modelDim = BEDROCK_EMBEDDING_OUTPUT_DIM
    /\ ~indexExists
    /\ body = [m \in Msgs |-> IF m = 1 THEN [kind |-> "obj", key |-> <<"batch", 1>>]
                                       ELSE [kind |-> "notjson", key |-> NoKey]]
    /\ wpc = [w \in Workers |-> "boot_probe"]

TwoWorkersSpec == InitTwoWorkers /\ [][Next]_vars

\* One call of invoke_bedrock_embedding, for every response the service may
\* send; no worker runs.
InitAdapter ==
    /\ InitCommon
    /\ maxReceiveCount = 1
    /\ modelDim = BEDROCK_EMBEDDING_OUTPUT_DIM
    /\ ~indexExists
    /\ body = [m \in Msgs |-> [kind |-> "notjson", key |-> NoKey]]
    /\ wpc = [w \in Workers |-> "off"]
    /\ data \in Responses
    /\ adapterOut = NotCalled

\* embedder.py:27-40: the body is decoded and the adapter returns or raises.
InvokeReturns ==
    /\ adapterOut = NotCalled
    /\ adapterOut' = ParseResponse(data)
    /\ UNCHANGED <<indexVars, modelDim, data, statusStore, queueVars, workerVars, h>>

AdapterSpec == InitAdapter /\ [][InvokeReturns]_vars
====
